---- MODULE Spec2Model ----
(***************************************************************************)
(* A model of the detector framework of pdcleaner: the detectors, their   *)
(* two construction modes (fit on data, clone of an existing detector on  *)
(* other data) and the flagged index each of them evaluates.              *)
(*                                                                         *)
(* A run is one script: it builds a detector on some data, may clone it   *)
(* onto other data, and an error raised by a constructor ends the run.    *)
(*                                                                         *)
(* Numbers.  Floats are fixed-point integers in units of 1/Scale; the     *)
(* values of a column are small integers n, standing for n.0.  The three  *)
(* special floats are the codes inf, NINF and nan.                        *)
(***************************************************************************)
EXTENDS Integers, Sequences, FiniteSets, TLC

VARIABLES dets, err, last

vars == <<dets, err, last>>

(***************************************************************************)
(* Bounds of the model                                                     *)
(***************************************************************************)
MaxRows == 3
\* the data a detector is cloned onto are about half as long
MaxCloneRows == (MaxRows + 1) \div 2

\* fixed-point unit: a multiple of 4, so that quartiles of integers are exact
Scale == 4 * 25

(***************************************************************************)
(* Floats                                                                  *)
(***************************************************************************)
inf == 100000000
NINF == -inf
nan == 999999999

IsNan(x) == x = nan
IsInf(x) == x = inf \/ x = NINF
IsFinite(x) == ~IsNan(x) /\ ~IsInf(x)

\* comparisons as IEEE floats make them: every comparison with nan is false
Lt(a, b) == ~IsNan(a) /\ ~IsNan(b) /\ a < b
Le(a, b) == ~IsNan(a) /\ ~IsNan(b) /\ a <= b
Ge(a, b) == Le(b, a)
Gt(a, b) == Lt(b, a)

Add(a, b) == IF IsNan(a) \/ IsNan(b) THEN nan ELSE a + b
Sub(a, b) == IF IsNan(a) \/ IsNan(b) THEN nan ELSE a - b
\* product of two fixed-point numbers
Mul(a, b) == IF IsNan(a) \/ IsNan(b) THEN nan ELSE (a * b) \div Scale

RECURSIVE SqrtIter(_, _)
SqrtIter(x, r) ==
    LET r2 == (r + (x \div r)) \div 2
    IN  IF r2 >= r THEN r ELSE SqrtIter(x, r2)

\* floor of the square root of a natural number
ISqrt(x) == IF x = 0 THEN 0 ELSE SqrtIter(x, x)

(***************************************************************************)
(* Cells, columns and tables                                               *)
(***************************************************************************)
NaN == [t |-> "nan", n |-> 0, s |-> <<>>]
IntCell(n) == [t |-> "int", n |-> n, s |-> <<>>]
StrCell(s) == [t |-> "str", n |-> 0, s |-> s]

isna(v) == v.t = "nan"

\* the float a numeric cell holds
CellNum(v) == IF isna(v) THEN nan ELSE IF v.t = "fx" THEN v.n ELSE v.n * Scale

\* a cell holding a float that is not a whole number, in units of 1/Scale
FxCell(x) == [t |-> "fx", n |-> x, s |-> <<>>]

\* a pandas object: a Series is one column, a DataFrame several; every row
\* carries its row key k and its cells c
Series(dtype, rows) == [shape |-> "series", dtypes |-> <<dtype>>, rows |-> rows]
Frame(dtypes, rows) == [shape |-> "frame", dtypes |-> dtypes, rows |-> rows]

Rows(obj) == obj.rows
Pos(obj) == 1..Len(obj.rows)
KeysOf(obj) == {obj.rows[i].k : i \in Pos(obj)}
\* the cell of row i in column j
Cell(obj, i, j) == obj.rows[i].c[j]
\* the value of row i of a Series
Val(obj, i) == obj.rows[i].c[1]

is_numeric_dtype(obj) == obj.shape = "series" /\ obj.dtypes[1] = "num"
is_object_dtype(obj) == obj.shape = "series" /\ obj.dtypes[1] = "object"

\* no detector given: the constructor fits
NoDet == [name |-> "None"]
IsDet(d) == d.name # "None"

Ok(d) == [err |-> "none", d |-> d]
Raise(e) == [err |-> e, d |-> NoDet]

(***************************************************************************)
(* The data of the runs                                                    *)
(***************************************************************************)
NumCells == {IntCell(0), IntCell(2), NaN}

\* two layouts of row keys: 0, 1, 2, ... and an unsorted, non-contiguous one
RowKey(lay, i) == IF lay = "range" THEN i - 1 ELSE (3 * i) % 7

MkRows(cells, lay) == [i \in 1..Len(cells) |-> [k |-> RowKey(lay, i), c |-> <<cells[i]>>]]

SeqsUpTo(S, n) == UNION {[1..m -> S] : m \in 0..n}

\* the data a detector is fitted on carry the unsorted row keys, the data it is
\* cloned onto the range keys
NumSeries(n, lay) == {Series("num", MkRows(cells, lay)) : cells \in SeqsUpTo(NumCells, n)}
FitNum == NumSeries(MaxRows, "unsorted")
CloneNum == NumSeries(MaxCloneRows, "range")

hasnans(obj) == \E i \in Pos(obj) : isna(Val(obj, i))

(***************************************************************************)
(* Statistics of the tabular collaborator, on sequences of floats          *)
(***************************************************************************)
\* the floats of a Series, in row order
Floats(obj) == [i \in Pos(obj) |-> CellNum(Val(obj, i))]

RECURSIVE dropna(_)
dropna(xs) ==
    IF xs = <<>> THEN <<>>
    ELSE IF IsNan(Head(xs)) THEN dropna(Tail(xs)) ELSE <<Head(xs)>> \o dropna(Tail(xs))

RECURSIVE Insert(_, _)
Insert(x, xs) ==
    IF xs = <<>> THEN <<x>>
    ELSE IF x <= Head(xs) THEN <<x>> \o xs ELSE <<Head(xs)>> \o Insert(x, Tail(xs))

RECURSIVE Sort(_)
Sort(xs) == IF xs = <<>> THEN <<>> ELSE Insert(Head(xs), Sort(Tail(xs)))

RECURSIVE Sum(_)
Sum(xs) == IF xs = <<>> THEN 0 ELSE Head(xs) + Sum(Tail(xs))

Abs(x) == IF x < 0 THEN -x ELSE x

\* Series.quantile(q), linear interpolation between the two nearest ranks,
\* missing values skipped; q is a fixed-point fraction in 0..Scale
quantile(xs, q) ==
    LET s == Sort(dropna(xs))
        n == Len(s)
        i == ((n - 1) * q) \div Scale
        r == ((n - 1) * q) % Scale
    IN  IF n = 0 THEN nan
        ELSE IF r = 0 THEN s[i + 1]
        ELSE s[i + 1] + ((s[i + 2] - s[i + 1]) * r) \div Scale

median(xs) == quantile(xs, Scale \div 2)

mean(xs) ==
    LET s == dropna(xs)
    IN  IF s = <<>> THEN nan ELSE Sum(s) \div Len(s)

\* Series.std(): the sample standard deviation (ddof = 1)
std(xs) ==
    LET s == dropna(xs)
        n == Len(s)
        dev == [i \in 1..n |-> (n * s[i] - Sum(s)) * (n * s[i] - Sum(s))]
    IN  IF n <= 1 THEN nan ELSE ISqrt(Sum(dev) \div (n * n * (n - 1)))

\* Series.min(), missing values skipped
min(xs) ==
    LET s == Sort(dropna(xs))
    IN  IF s = <<>> THEN nan ELSE s[1]

\* the median absolute deviation from the median
mad(xs) ==
    LET m == median(xs)
    IN  median([i \in 1..Len(xs) |-> IF IsNan(xs[i]) THEN nan ELSE Abs(xs[i] - m)])

(***************************************************************************)
(* bounded                                                                 *)
(***************************************************************************)
InclusiveValues == {"both", "neither", "left", "right"}
SidedValues == {"both", "left", "right"}

\* lower as it would be if the property ignored sided
lower_mut(d) == d.lower

\* the index as it would be if it held row positions instead of row keys
mask_index_mut(obj, mask) == {j \in Pos(obj) : mask[j]}

\* self._obj[mask].index : the row keys of the rows the mask selects
mask_index(obj, mask) == {obj.rows[i].k : i \in {j \in Pos(obj) : mask[j]}}

\* the properties lower and upper: a one-sided detector reports the unused
\* bound as infinite
lower(d) == IF d.sided = "right" THEN NINF ELSE d.lower
upper(d) == IF d.sided = "left" THEN inf ELSE d.upper

\* bounded.__init__ as it would be if equal bounds were accepted
bounded_init_mut(name, obj, detector_obj, lo, up, inclusive) ==
    IF obj.shape # "series" THEN Raise("TypeError")
    ELSE IF ~is_numeric_dtype(obj) THEN Raise("TypeError")
    ELSE IF inclusive \notin InclusiveValues THEN Raise("ValueError")
    ELSE LET d == IF ~IsDet(detector_obj)
                  THEN [name |-> name, obj |-> obj, lower |-> lo, upper |-> up,
                        inclusive |-> inclusive, sided |-> "both"]
                  ELSE [name |-> name, obj |-> obj, lower |-> detector_obj.lower,
                        upper |-> detector_obj.upper,
                        inclusive |-> detector_obj.inclusive,
                        sided |-> detector_obj.sided]
         IN  IF Gt(d.lower, d.upper) THEN Raise("ValueError") ELSE Ok(d)

\* bounded.__init__
bounded_init(name, obj, detector_obj, lo, up, inclusive) ==
    IF obj.shape # "series" THEN Raise("TypeError")
    ELSE IF ~is_numeric_dtype(obj) THEN Raise("TypeError")
    ELSE IF inclusive \notin InclusiveValues THEN Raise("ValueError")
    ELSE LET d == IF ~IsDet(detector_obj)
                  THEN [name |-> name, obj |-> obj, lower |-> lo, upper |-> up,
                        inclusive |-> inclusive, sided |-> "both"]
                  ELSE [name |-> name, obj |-> obj, lower |-> lower(detector_obj),
                        upper |-> upper(detector_obj),
                        inclusive |-> detector_obj.inclusive,
                        sided |-> detector_obj.sided]
         IN  IF Ge(d.lower, d.upper) THEN Raise("ValueError") ELSE Ok(d)

\* the interval test as it would be if 'left' and 'right' were exchanged
InInterval_mut(d, x) ==
    CASE d.inclusive = "both" -> Le(lower(d), x) /\ Le(x, upper(d))
      [] d.inclusive = "neither" -> Lt(lower(d), x) /\ Lt(x, upper(d))
      [] d.inclusive = "right" -> Le(lower(d), x) /\ Lt(x, upper(d))
      [] d.inclusive = "left" -> Lt(lower(d), x) /\ Le(x, upper(d))

\* bounded.index: the mask of the values outside the interval, closed or open
\* at each end as inclusive says
InInterval(d, x) ==
    CASE d.inclusive = "both" -> Le(lower(d), x) /\ Le(x, upper(d))
      [] d.inclusive = "neither" -> Lt(lower(d), x) /\ Lt(x, upper(d))
      [] d.inclusive = "left" -> Le(lower(d), x) /\ Lt(x, upper(d))
      [] d.inclusive = "right" -> Lt(lower(d), x) /\ Le(x, upper(d))

\* bounded.index as it would be without the line that clears the missing rows
bounded_index_mut(d) ==
    mask_index(d.obj, [i \in Pos(d.obj) |-> ~InInterval(d, CellNum(Val(d.obj, i)))])

\* bounded.index: the values outside the interval, the missing ones never
bounded_index(d) ==
    LET mask == [i \in Pos(d.obj) |->
                    IF isna(Val(d.obj, i)) THEN FALSE
                    ELSE ~InInterval(d, CellNum(Val(d.obj, i)))]
    IN  mask_index(d.obj, mask)

(***************************************************************************)
(* quantiles                                                               *)
(***************************************************************************)
\* quantiles.__init__
quantiles_init(obj, detector_obj, lowerq, upperq, inclusive) ==
    LET base == bounded_init("quantiles", obj, NoDet, nan, nan, "both")
    IN  IF base.err # "none" THEN base
        ELSE IF inclusive \notin InclusiveValues THEN Raise("ValueError")
        ELSE LET d == IF ~IsDet(detector_obj)
                      THEN base.d @@ [lowerq |-> lowerq, upperq |-> upperq]
                      ELSE base.d @@ [lowerq |-> detector_obj.lowerq,
                                      upperq |-> detector_obj.upperq]
                 e == IF ~IsDet(detector_obj)
                      THEN [d EXCEPT !.lower = quantile(Floats(obj), lowerq),
                                     !.upper = quantile(Floats(obj), upperq),
                                     !.inclusive = inclusive,
                                     !.sided = "both"]
                      ELSE [d EXCEPT !.lower = lower(detector_obj),
                                     !.upper = upper(detector_obj),
                                     !.inclusive = detector_obj.inclusive,
                                     !.sided = detector_obj.sided]
             IN  IF e.lowerq >= e.upperq THEN Raise("ValueError") ELSE Ok(e)

(***************************************************************************)
(* The numeric collaborator: normality test and Box-Cox transform          *)
(*                                                                         *)
(* scipy fits the shape parameter lambda of the transform by maximum       *)
(* likelihood.  The model keeps what the detectors rely on: lambda is a    *)
(* function of the data given to the fit, and the transform of parameter   *)
(* lambda and its inverse are the analytic ones.  The fit is represented   *)
(* by the two shapes the fixed-point arithmetic computes exactly: 2 for    *)
(* data whose mean lies above the middle of their range (a tail to the     *)
(* left), 1 otherwise.                                                     *)
(***************************************************************************)
\* stats.normaltest: the p-value in 1/1000, here 1 for a sample symmetric
\* about its middle (no skewness), else 0
normaltest(xs) ==
    LET s == Sort(dropna(xs))
        n == Len(s)
    IN  IF \E i \in 1..Len(xs) : IsNan(xs[i]) THEN nan
        ELSE IF \A i \in 1..n : s[i] + s[n + 1 - i] = s[1] + s[n] THEN 1000 ELSE 0

\* the lambda that stats.boxcox fits on xs (positive floats)
boxcox_normmax(xs) ==
    LET s == Sort(xs)
    IN  IF 2 * Sum(s) > Len(s) * (s[1] + s[Len(s)]) THEN 2 ELSE 1

\* stats.boxcox refuses data that are empty, constant or not finite
boxcox_fails(xs) ==
    \/ xs = <<>>
    \/ \E i \in 1..Len(xs) : IsNan(xs[i])
    \/ \A i \in 1..Len(xs) : xs[i] = xs[1]

\* the Box-Cox transform (x^lambda - 1) / lambda of a positive float
boxcox1(x, lmbda) ==
    IF lmbda = 1 THEN x - Scale
    ELSE ((x * x) \div Scale - Scale) \div 2

\* _inverse_boxcox
inverse_boxcox(xt, shift, lmbda) ==
    IF IsNan(xt) \/ IsNan(shift) THEN nan
    ELSE IF lmbda = 1 THEN xt + Scale - shift
    ELSE IF 2 * xt + Scale < 0 THEN nan
    ELSE ISqrt((2 * xt + Scale) * Scale) - shift

\* self._transformations["boxcox"]: the data shifted to start at 1, transformed
boxcox_shift(obj) == Sub(Scale, min(Floats(obj)))

boxcox_transform(obj) ==
    LET xs == [i \in Pos(obj) |-> Add(Floats(obj)[i], boxcox_shift(obj))]
    IN  IF boxcox_fails(xs) THEN [err |-> "ValueError", transformed |-> <<>>, lmbda |-> 0]
        ELSE [err |-> "none",
              transformed |-> [i \in 1..Len(xs) |-> boxcox1(xs[i], boxcox_normmax(xs))],
              lmbda |-> boxcox_normmax(xs)]

(***************************************************************************)
(* iqr, zscore, modzscore                                                  *)
(***************************************************************************)
NormaltestValues == {"ignore", "warn", "error"}
TransformValues == {"None", "boxcox", "yeojohnson"}

\* the default p-value of the normality test, in 1/1000
PvalueDefault == 1

\* the minimum number of observations of the normality test
MinNormalTest == 8

\* _GaussianSeriesDetector.__init__ ; lmbda 0 stands for the attribute never set
gaussian_init(name, obj, detector_obj, threshold, inclusive, sided, normal, pvalue, transform) ==
    LET base == bounded_init(name, obj, NoDet, nan, nan, "both")
    IN  IF base.err # "none" THEN base
        ELSE IF inclusive \notin InclusiveValues \/ sided \notin SidedValues
             THEN Raise("ValueError")
        ELSE IF normal \notin NormaltestValues THEN Raise("ValueError")
        ELSE IF transform \notin TransformValues THEN Raise("ValueError")
        ELSE IF pvalue <= 0 THEN Raise("ValueError")
        ELSE LET d == IF ~IsDet(detector_obj)
                      THEN base.d @@
                           [threshold |-> threshold, normaltest |-> normal,
                            pvalue |-> pvalue, transform |-> transform,
                            isnormal |-> IF Len(obj.rows) > MinNormalTest
                                         THEN Gt(normaltest(Floats(obj)), pvalue)
                                         ELSE FALSE,
                            lmbda |-> 0, transformed |-> <<>>]
                      ELSE base.d @@
                           [threshold |-> detector_obj.threshold,
                            normaltest |-> detector_obj.normaltest,
                            pvalue |-> detector_obj.pvalue,
                            transform |-> detector_obj.transform,
                            isnormal |-> detector_obj.isnormal,
                            lmbda |-> 0, transformed |-> <<>>]
                 e == IF ~IsDet(detector_obj)
                      THEN [d EXCEPT !.inclusive = inclusive, !.sided = sided]
                      ELSE [d EXCEPT !.inclusive = detector_obj.inclusive,
                                     !.sided = detector_obj.sided]
                 t == boxcox_transform(obj)
             IN  IF e.threshold < 0 THEN Raise("ValueError")
                 ELSE IF ~e.isnormal /\ e.normaltest = "error" THEN Raise("Exception")
                 ELSE IF e.transform # "None" /\ ~e.isnormal
                      THEN IF t.err # "none" THEN Raise(t.err)
                           ELSE Ok([e EXCEPT !.transformed = t.transformed,
                                             !.lmbda = t.lmbda])
                      ELSE Ok(e)

\* the property lmbda: the attribute is read, set or not
lmbda(d) ==
    IF d.lmbda = 0 THEN [err |-> "AttributeError", v |-> 0] ELSE [err |-> "none", v |-> d.lmbda]

\* the inversion as it would be if it left the bound in the transformed space
inverse_tranf_mut(d, x, clamp) == IF IsNan(x) THEN clamp ELSE x

\* self._inverse_tranf[self._transform], then the undefined value clamped
inverse_tranf(d, x, clamp) ==
    LET y == inverse_boxcox(x, boxcox_shift(d.obj), d.lmbda)
    IN  IF IsNan(y) THEN clamp ELSE y

\* the tail shared by the three constructors: the bounds are inverted when the
\* transform ARGUMENT is given and the data are not normal
gaussian_bounds(d, transform, lo, up) ==
    IF transform # "None" /\ ~d.isnormal
    THEN IF d.transform = "None" THEN Raise("KeyError")
         ELSE Ok([d EXCEPT !.lower = inverse_tranf(d, lo, NINF),
                           !.upper = inverse_tranf(d, up, inf)])
    ELSE Ok([d EXCEPT !.lower = lo, !.upper = up])

\* the series the statistics are taken on in fit mode
fit_series(d, transform) ==
    IF transform = "None" \/ d.isnormal THEN Floats(d.obj) ELSE d.transformed

\* IqrSeriesDetector.__init__ as it would be with the quartiles as bounds
iqr_init_mut(obj, detector_obj, threshold, inclusive, sided, normal, pvalue, transform) ==
    LET g == gaussian_init("iqr", obj, detector_obj, threshold, inclusive, sided,
                           normal, pvalue, transform)
        q25 == IF ~IsDet(detector_obj) THEN quantile(fit_series(g.d, transform), Scale \div 4)
               ELSE detector_obj.q25
        q75 == IF ~IsDet(detector_obj) THEN quantile(fit_series(g.d, transform), 3 * (Scale \div 4))
               ELSE detector_obj.q75
        iqr == Sub(q75, q25)
    IN  IF g.err # "none" THEN g
        ELSE gaussian_bounds(g.d @@ [q25 |-> q25, q75 |-> q75, iqr |-> iqr], transform,
                             q25, q75)

\* IqrSeriesDetector.__init__
iqr_init(obj, detector_obj, threshold, inclusive, sided, normal, pvalue, transform) ==
    LET g == gaussian_init("iqr", obj, detector_obj, threshold, inclusive, sided,
                           normal, pvalue, transform)
        q25 == IF ~IsDet(detector_obj) THEN quantile(fit_series(g.d, transform), Scale \div 4)
               ELSE detector_obj.q25
        q75 == IF ~IsDet(detector_obj) THEN quantile(fit_series(g.d, transform), 3 * (Scale \div 4))
               ELSE detector_obj.q75
        iqr == Sub(q75, q25)
    IN  IF g.err # "none" THEN g
        ELSE gaussian_bounds(g.d @@ [q25 |-> q25, q75 |-> q75, iqr |-> iqr], transform,
                             Sub(q25, Mul(g.d.threshold, iqr)),
                             Add(q75, Mul(g.d.threshold, iqr)))

\* ZScoreSeriesDetector.__init__
zscore_init(obj, detector_obj, threshold, inclusive, sided, normal, pvalue, transform) ==
    LET g == gaussian_init("zscore", obj, detector_obj, threshold, inclusive, sided,
                           normal, pvalue, transform)
        m == IF ~IsDet(detector_obj) THEN mean(fit_series(g.d, g.d.transform))
             ELSE detector_obj.mean
        sd == IF ~IsDet(detector_obj) THEN std(fit_series(g.d, g.d.transform))
              ELSE detector_obj.std
    IN  IF g.err # "none" THEN g
        ELSE gaussian_bounds(g.d @@ [mean |-> m, std |-> sd], transform,
                             Sub(m, Mul(g.d.threshold, sd)),
                             Add(m, Mul(g.d.threshold, sd)))

\* the constant of the modified Z-score, in 1/10000
ModZConst == 6475

\* threshold / 0.6475 * mad
modz_radius(threshold, md) ==
    IF IsNan(md) THEN nan ELSE (((threshold * 10000) \div ModZConst) * md) \div Scale

\* ModZScoreSeriesDetector.__init__
modzscore_init(obj, detector_obj, threshold, inclusive, sided, normal, pvalue, transform) ==
    LET g == gaussian_init("modzscore", obj, detector_obj, threshold, inclusive, sided,
                           normal, pvalue, transform)
        med == IF ~IsDet(detector_obj) THEN median(fit_series(g.d, g.d.transform))
               ELSE detector_obj.median
        md == IF ~IsDet(detector_obj) THEN mad(fit_series(g.d, g.d.transform))
              ELSE detector_obj.mad
    IN  IF g.err # "none" THEN g
        ELSE gaussian_bounds(g.d @@ [median |-> med, mad |-> md], transform,
                             Sub(med, modz_radius(g.d.threshold, md)),
                             Add(med, modz_radius(g.d.threshold, md)))

(***************************************************************************)
(* enum, counts, freq                                                      *)
(***************************************************************************)
\* Series.isin(values)
isin(v, vals) == ~isna(v) /\ v \in vals

\* Series.value_counts(): the number of rows of each non-missing value
value_counts(obj) ==
    [v \in {Val(obj, i) : i \in {j \in Pos(obj) : ~isna(Val(obj, j))}} |->
        Cardinality({i \in Pos(obj) : Val(obj, i) = v})]

\* enum.__init__
enum_init(obj, detector_obj, vals, forbidden) ==
    IF obj.shape # "series" THEN Raise("TypeError")
    ELSE LET d == IF ~IsDet(detector_obj)
                  THEN [name |-> "enum", obj |-> obj, _values |-> vals,
                        forbidden |-> forbidden]
                  ELSE [name |-> "enum", obj |-> obj, _values |-> detector_obj._values,
                        forbidden |-> detector_obj.forbidden]
         IN  IF d._values = {} THEN Raise("ValueError") ELSE Ok(d)

\* enum.index
enum_index(d) ==
    LET mask == [i \in Pos(d.obj) |->
                    IF isna(Val(d.obj, i)) THEN FALSE
                    ELSE IF d.forbidden THEN isin(Val(d.obj, i), d._values)
                    ELSE ~isin(Val(d.obj, i), d._values)]
    IN  mask_index(d.obj, mask)

\* counts.values as it would be if n occurrences were enough to be valid
counts_values_mut(obj, n) ==
    LET v_c == value_counts(obj) IN {v \in DOMAIN v_c : v_c[v] >= n}

\* counts.values: the values of the detector's own object seen more than n times
counts_values(obj, n) ==
    LET v_c == value_counts(obj) IN {v \in DOMAIN v_c : v_c[v] > n}

\* counts.__init__ as it would be if a clone computed its values again
counts_init_mut(obj, detector_obj, n) ==
    IF obj.shape # "series" THEN Raise("TypeError")
    ELSE LET d == IF ~IsDet(detector_obj)
                  THEN [name |-> "counts", obj |-> obj, n |-> n,
                        _values |-> counts_values(obj, n)]
                  ELSE [name |-> "counts", obj |-> obj, n |-> detector_obj.n,
                        _values |-> counts_values(obj, detector_obj.n)]
         IN  IF n <= 0 THEN Raise("TypeError") ELSE Ok(d)

\* counts.__init__ ; the test on n reads the argument, not the copied value
counts_init(obj, detector_obj, n) ==
    IF obj.shape # "series" THEN Raise("TypeError")
    ELSE LET d == IF ~IsDet(detector_obj)
                  THEN [name |-> "counts", obj |-> obj, n |-> n,
                        _values |-> counts_values(obj, n)]
                  ELSE [name |-> "counts", obj |-> obj, n |-> detector_obj.n,
                        _values |-> detector_obj._values]
         IN  IF n <= 0 THEN Raise("TypeError") ELSE Ok(d)

\* freq.values: the values whose share of the non-missing rows exceeds freq
freq_values(obj, freq) ==
    LET v_c == value_counts(obj)
        total == Cardinality({i \in Pos(obj) : ~isna(Val(obj, i))})
    IN  {v \in DOMAIN v_c : v_c[v] * Scale > freq * total}

\* freq.__init__
freq_init(obj, detector_obj, freq) ==
    IF obj.shape # "series" THEN Raise("TypeError")
    ELSE LET d == IF ~IsDet(detector_obj)
                  THEN [name |-> "freq", obj |-> obj, freq |-> freq,
                        _values |-> freq_values(obj, freq)]
                  ELSE [name |-> "freq", obj |-> obj, freq |-> detector_obj.freq,
                        _values |-> detector_obj._values]
         IN  IF d.freq <= 0 \/ d.freq >= Scale THEN Raise("TypeError") ELSE Ok(d)

\* counts.index and freq.index: the rows whose value is not a stored value
counts_index(d) ==
    LET mask == [i \in Pos(d.obj) |->
                    IF isna(Val(d.obj, i)) THEN FALSE
                    ELSE ~isin(Val(d.obj, i), d._values)]
    IN  mask_index(d.obj, mask)

\* the property values: enum returns the stored set, counts and freq compute
\* it again from the object the detector is bound to
values(d) ==
    CASE d.name = "enum" -> d._values
      [] d.name = "counts" -> counts_values(d.obj, d.n)
      [] d.name = "freq" -> freq_values(d.obj, d.freq)

(***************************************************************************)
(* value                                                                   *)
(***************************************************************************)
\* a float cell, and the value None
FloatCell(n) == [t |-> "float", n |-> n, s |-> <<>>]
NoValue == [t |-> "None", n |-> 0, s |-> <<>>]

\* x == value: numbers compare by value whatever their type, texts by content
py_eq(x, v) ==
    IF x.t = "str" /\ v.t = "str" THEN x.s = v.s
    ELSE IF x.t \in {"int", "float"} /\ v.t \in {"int", "float"} THEN x.n = v.n
    ELSE FALSE

\* x is value as it would be if it compared the type and the value
py_is_mut(x, v, shared) == x.t = v.t /\ py_eq(x, v)

\* x is value, x an element handed by Series.apply: the same object. The small
\* integers are single objects; a float taken out of a float column is a new
\* object each time; an equal text is the same object when the runtime shares
\* it (shared), which the program does not control
py_is(x, v, shared) ==
    /\ x.t = v.t
    /\ py_eq(x, v)
    /\ CASE x.t = "int" -> x.n \in -5..256
         [] x.t = "float" -> FALSE
         [] x.t = "str" -> shared
         [] OTHER -> FALSE

\* value.__init__
value_init(obj, detector_obj, value, check_type, forbidden, shared) ==
    IF obj.shape # "series" THEN Raise("TypeError")
    ELSE LET d == IF ~IsDet(detector_obj)
                  THEN [name |-> "value", obj |-> obj, value |-> value,
                        check_type |-> check_type, forbidden |-> forbidden,
                        shared |-> shared]
                  ELSE [name |-> "value", obj |-> obj, value |-> detector_obj.value,
                        check_type |-> detector_obj.check_type,
                        forbidden |-> detector_obj.forbidden, shared |-> shared]
         IN  IF d.value = NoValue THEN Raise("ValueError") ELSE Ok(d)

\* value.index
value_index(d) ==
    LET same(x) == IF d.check_type THEN py_is(x, d.value, d.shared) ELSE py_eq(x, d.value)
        mask == [i \in Pos(d.obj) |->
                    IF isna(Val(d.obj, i)) THEN FALSE
                    ELSE IF d.forbidden THEN same(Val(d.obj, i))
                    ELSE ~same(Val(d.obj, i))]
    IN  mask_index(d.obj, mask)

(***************************************************************************)
(* missing, duplicated, custom                                             *)
(***************************************************************************)
Cols(obj) == 1..Len(obj.dtypes)

\* missing.__init__
missing_init(obj, detector_obj, how) ==
    IF how \notin {"any", "all"} THEN Raise("ValueError")
    ELSE Ok([name |-> "missing", obj |-> obj,
             how |-> IF ~IsDet(detector_obj) THEN how ELSE detector_obj.how])

\* missing.index
missing_index(d) ==
    LET mask == [i \in Pos(d.obj) |->
                    IF d.obj.shape = "series" THEN isna(Val(d.obj, i))
                    ELSE IF d.how = "any" THEN \E j \in Cols(d.obj) : isna(Cell(d.obj, i, j))
                    ELSE \A j \in Cols(d.obj) : isna(Cell(d.obj, i, j))]
    IN  mask_index(d.obj, mask)

\* duplicated.__init__ : keep is not validated
duplicated_init(obj, detector_obj, subset, keep) ==
    Ok([name |-> "duplicated", obj |-> obj,
        subset |-> IF ~IsDet(detector_obj) THEN subset ELSE detector_obj.subset,
        keep |-> IF ~IsDet(detector_obj) THEN keep ELSE detector_obj.keep])

KeepValues == {"first", "last", "False"}

\* the cells duplicated() compares: the whole row, or the columns of subset;
\* two missing values compare equal
dup_cells(d, i) ==
    LET cols == IF d.obj.shape = "series" \/ d.subset = {} THEN Cols(d.obj) ELSE d.subset
    IN  [j \in cols |-> Cell(d.obj, i, j)]

\* duplicated.index
duplicated_index(d) ==
    LET same(i, j) == dup_cells(d, i) = dup_cells(d, j)
        mask == [i \in Pos(d.obj) |->
                    CASE d.keep = "first" -> \E j \in Pos(d.obj) : j < i /\ same(i, j)
                      [] d.keep = "last" -> \E j \in Pos(d.obj) : j > i /\ same(i, j)
                      [] OTHER -> \E j \in Pos(d.obj) : j # i /\ same(i, j)]
    IN  IF d.keep \notin KeepValues THEN [err |-> "ValueError", keys |-> {}]
        ELSE [err |-> "none", keys |-> mask_index(d.obj, mask)]

\* the functions given to custom: their number of arguments and what they
\* return on a cell ("None" is no function, "text" is not callable)
ErrorFuncs == {"None", "text", "isna", "positive", "identity", "binary"}
nb_of_args(f) == IF f = "binary" THEN 2 ELSE 1
Callable(f) == f \notin {"None", "text"}

\* whether the function returns a boolean
returns_bool(f) == f \in {"isna", "positive"}

\* error_func(x), for the functions that return a boolean
error_func(f, v) == IF f = "isna" THEN isna(v) ELSE Gt(CellNum(v), 0)

\* custom.__init__ as it would be if it tried the function on the data
custom_init_mut(obj, detector_obj, f) ==
    LET d == [name |-> "custom", obj |-> obj,
              error_func |-> IF ~IsDet(detector_obj) THEN f ELSE detector_obj.error_func]
    IN  IF d.error_func = "None" THEN Raise("ValueError")
        ELSE IF ~Callable(d.error_func) THEN Raise("TypeError")
        ELSE IF Len(obj.dtypes) # nb_of_args(d.error_func) THEN Raise("ValueError")
        ELSE IF ~returns_bool(d.error_func) THEN Raise("TypeError")
        ELSE Ok(d)

\* custom.__init__
custom_init(obj, detector_obj, f) ==
    LET d == [name |-> "custom", obj |-> obj,
              error_func |-> IF ~IsDet(detector_obj) THEN f ELSE detector_obj.error_func]
    IN  IF d.error_func = "None" THEN Raise("ValueError")
        ELSE IF ~Callable(d.error_func) THEN Raise("TypeError")
        ELSE IF Len(obj.dtypes) # nb_of_args(d.error_func) THEN Raise("ValueError")
        ELSE Ok(d)

\* custom.index: the mask is what the function returns, missing rows included;
\* comparing a text with a number raises, and so does a mask of another dtype
custom_index(d) ==
    LET mask == [i \in Pos(d.obj) |-> error_func(d.error_func, Val(d.obj, i))]
    IN  IF d.error_func = "positive" /\ \E i \in Pos(d.obj) : Val(d.obj, i).t = "str"
        THEN [err |-> "TypeError", keys |-> {}]
        ELSE IF ~returns_bool(d.error_func) THEN [err |-> "TypeError", keys |-> {}]
        ELSE [err |-> "none", keys |-> mask_index(d.obj, mask)]

(***************************************************************************)
(* keycollision                                                            *)
(* A text is a sequence of one-character strings.                          *)
(***************************************************************************)
\* the letters of the model, in code point order
Letters == <<"a", "b", "e", "n">>
Rank(c) == CHOOSE r \in 1..Len(Letters) : Letters[r] = c
IsLetter(c) == \E r \in 1..Len(Letters) : Letters[r] = c

\* str.replace('^.{2}:', ' ') : a two-character prefix closed by a colon
replace_prefix(s) ==
    IF Len(s) >= 3 /\ s[3] = ":" THEN <<" ">> \o SubSeq(s, 4, Len(s)) ELSE s

RECURSIVE lstrip(_)
lstrip(s) == IF s # <<>> /\ Head(s) = " " THEN lstrip(Tail(s)) ELSE s

RECURSIVE rstrip(_)
rstrip(s) == IF s # <<>> /\ s[Len(s)] = " " THEN rstrip(SubSeq(s, 1, Len(s) - 1)) ELSE s

\* str.strip()
strip(s) == rstrip(lstrip(s))

\* str.lower()
str_lower(s) == [i \in 1..Len(s) |-> IF s[i] = "A" THEN "a" ELSE IF s[i] = "B" THEN "b" ELSE s[i]]

RECURSIVE to_ascii(_)
\* str.normalize('NFKD').str.encode('ASCII', 'ignore').str.decode('utf-8'):
\* an accented letter loses its accent, any other non-ASCII character is dropped
to_ascii(s) ==
    IF s = <<>> THEN <<>>
    ELSE IF Head(s) = "é" THEN <<"e">> \o to_ascii(Tail(s))
    ELSE IF Head(s) = "€" THEN to_ascii(Tail(s))
    ELSE <<Head(s)>> \o to_ascii(Tail(s))

\* str.replace('[^a-zA-Z]', ' ')
letters_only(s) == [i \in 1..Len(s) |-> IF IsLetter(s[i]) THEN s[i] ELSE " "]

RECURSIVE squeeze(_)
\* str.replace(' +', ' ')
squeeze(s) ==
    IF Len(s) <= 1 THEN s
    ELSE IF s[1] = " " /\ s[2] = " " THEN squeeze(Tail(s))
    ELSE <<Head(s)>> \o squeeze(Tail(s))

RECURSIVE split(_, _)
\* str.split(" "), cur being the token that is being read
split(s, cur) ==
    IF s = <<>> THEN <<cur>>
    ELSE IF Head(s) = " " THEN <<cur>> \o split(Tail(s), <<>>)
    ELSE split(Tail(s), Append(cur, Head(s)))

RECURSIVE TextLt(_, _)
\* the order of two texts of letters
TextLt(a, b) ==
    IF b = <<>> THEN FALSE
    ELSE IF a = <<>> THEN TRUE
    ELSE IF Head(a) # Head(b) THEN Rank(Head(a)) < Rank(Head(b))
    ELSE TextLt(Tail(a), Tail(b))

RECURSIVE sorted(_)
\* sorted(list(dict.fromkeys(l))): the distinct tokens, in increasing order
sorted(toks) ==
    IF toks = {} THEN <<>>
    ELSE LET m == CHOOSE t \in toks : \A u \in toks \ {t} : TextLt(t, u)
         IN  <<m>> \o sorted(toks \ {m})

RECURSIVE join(_)
\* ' '.join(l)
join(l) ==
    IF l = <<>> THEN <<>>
    ELSE IF Len(l) = 1 THEN l[1]
    ELSE l[1] \o <<" ">> \o join(Tail(l))

\* keycollision.fingerprints, on one cell
fingerprints(v) ==
    LET filled == IF isna(v) THEN <<>> ELSE v.s
        cleaned == squeeze(letters_only(to_ascii(str_lower(strip(replace_prefix(filled))))))
        toks == split(cleaned, <<>>)
    IN  strip(join(sorted({toks[i] : i \in 1..Len(toks)})))

\* Series.astype(str): a missing value becomes the text 'nan'
astype_str(v) == IF isna(v) THEN <<"n", "a", "n">> ELSE v.s

\* value_counts().idxmax() over the rows of one key: the text seen most often,
\* the first one met among equals
idxmax(obj, rows) ==
    LET cnt(i) == Cardinality({j \in rows : astype_str(Val(obj, j)) = astype_str(Val(obj, i))})
        best == CHOOSE i \in rows :
                    \A j \in rows : cnt(j) < cnt(i) \/ (cnt(j) = cnt(i) /\
                        \E h \in rows : h <= j /\ astype_str(Val(obj, h)) = astype_str(Val(obj, i)))
    IN  astype_str(Val(obj, best))

\* keycollision.dict_keys: computed from the object the detector is bound to,
\* every time it is read
dict_keys(obj) ==
    [k \in {fingerprints(Val(obj, i)) : i \in Pos(obj)} |->
        idxmax(obj, {i \in Pos(obj) : fingerprints(Val(obj, i)) = k})]

KeysValues == {"fingerprint"}

\* keycollision.__init__
keycollision_init(obj, detector, keys) ==
    IF obj.shape # "series" THEN Raise("TypeError")
    ELSE IF ~is_object_dtype(obj) THEN Raise("TypeError")
    ELSE IF keys \notin KeysValues THEN Raise("ValueError")
    ELSE IF ~IsDet(detector)
         THEN Ok([name |-> "keycollision", obj |-> obj, keys |-> keys,
                  _dict_keys |-> dict_keys(obj)])
         ELSE Ok([name |-> "keycollision", obj |-> obj, keys |-> detector.keys,
                  _dict_keys |-> dict_keys(detector.obj)])

\* keycollision.index: the rows whose text is not the one stored for their key
keycollision_index(d) ==
    LET key(i) == fingerprints(Val(d.obj, i))
        mask == [i \in Pos(d.obj) |->
                    IF isna(Val(d.obj, i)) THEN FALSE
                    ELSE IF key(i) \notin DOMAIN d._dict_keys THEN TRUE
                    ELSE Val(d.obj, i).s # d._dict_keys[key(i)]]
    IN  mask_index(d.obj, mask)

(***************************************************************************)
(* types, on columns of python objects                                     *)
(***************************************************************************)
\* type(x): a missing value is the float nan
py_type(x) == IF isna(x) THEN "float" ELSE x.t

\* types.ptype: when no type was given, the type of the value under the
\* smallest row key
types_ptype(d) ==
    LET first == CHOOSE i \in Pos(d.obj) : \A j \in Pos(d.obj) : d.obj.rows[i].k <= d.obj.rows[j].k
    IN  IF d._ptype = "None" THEN py_type(Val(d.obj, first)) ELSE d._ptype

PythonTypes == {"int", "float", "str"}

\* types.__init__ ; ptype is a type, "None" when not given, or a name that
\* locate() does not find
types_init(obj, detector_obj, ptype) ==
    IF obj.shape # "series" THEN Raise("TypeError")
    ELSE LET d == [name |-> "types", obj |-> obj,
                   _ptype |-> IF ~IsDet(detector_obj) THEN ptype ELSE types_ptype(detector_obj)]
         IN  IF types_ptype(d) \notin PythonTypes THEN Raise("TypeError") ELSE Ok(d)

\* types.index
types_index(d) ==
    mask_index(d.obj, [i \in Pos(d.obj) |->
                          IF isna(Val(d.obj, i)) THEN FALSE
                          ELSE py_type(Val(d.obj, i)) # types_ptype(d)])

(***************************************************************************)
(* by_category and outliers, on tables                                     *)
(***************************************************************************)
\* DataFrame.dropna(): the positions of the rows without a missing cell
complete(obj) == {i \in Pos(obj) : \A j \in Cols(obj) : ~isna(Cell(obj, i, j))}

is_numerics_df(obj) == \A j \in Cols(obj) : obj.dtypes[j] = "num"
is_num_and_cat_df(obj) ==
    /\ Len(obj.dtypes) = 2
    /\ Cardinality({j \in Cols(obj) : obj.dtypes[j] = "num"}) = 1
    /\ Cardinality({j \in Cols(obj) : obj.dtypes[j] = "object"}) = 1

\* one text column and nothing else but numerical columns, none included
is_nums_and_cat_df(obj) ==
    /\ Cardinality({j \in Cols(obj) : obj.dtypes[j] = "object"}) = 1
    /\ \A j \in Cols(obj) : obj.dtypes[j] \in {"num", "object"}

\* series.cleaner.detect(method, **kwargs), for the methods given to by_category
detect(obj, method, kw) ==
    CASE method = "bounded" -> bounded_init("bounded", obj, NoDet, kw.lower, kw.upper, "both")
      [] method = "iqr" -> iqr_init(obj, NoDet, kw.threshold, "both", "both", "ignore",
                                    PvalueDefault, "None")
      [] OTHER -> Raise("ValueError")

\* ByCategoryDataFrameDetector.__init__ storing the parameters whatever
\* detector_obj is
by_category_init_mut(obj, detector_obj, method, method_kwargs) ==
    IF obj.shape # "frame" THEN Raise("TypeError")
    ELSE Ok([name |-> "by_category", obj |-> obj, method |-> method,
             method_kwargs |-> method_kwargs])

\* ByCategoryDataFrameDetector.__init__ ; its base class hands obj to the base
\* class of the detectors on tables and looks at no column
by_category_init(obj, detector_obj, method, method_kwargs) ==
    IF obj.shape # "frame" THEN Raise("TypeError")
    ELSE IF IsDet(detector_obj) THEN Raise("ValueError")
    ELSE Ok([name |-> "by_category", obj |-> obj, method |-> method,
             method_kwargs |-> method_kwargs])

\* the numerical column of the rows of one category, as a Series
category_series(obj, category) ==
    LET num_col == CHOOSE j \in Cols(obj) : obj.dtypes[j] = "num"
        cat_col == CHOOSE j \in Cols(obj) : obj.dtypes[j] # "num"
        keep(r) == (\A j \in Cols(obj) : ~isna(r.c[j])) /\ r.c[cat_col] = category
        rows == SelectSeq(obj.rows, keep)
    IN  Series("num", [i \in 1..Len(rows) |-> [k |-> rows[i].k, c |-> <<rows[i].c[num_col]>>]])

\* by_category.index as it would be with one detector for the whole table
by_category_index_mut(d) ==
    LET num_col == CHOOSE j \in Cols(d.obj) : d.obj.dtypes[j] = "num"
        rows == SelectSeq(d.obj.rows, LAMBDA r : \A j \in Cols(d.obj) : ~isna(r.c[j]))
        whole == detect(Series("num", [i \in 1..Len(rows) |->
                                          [k |-> rows[i].k, c |-> <<rows[i].c[num_col]>>]]),
                        d.method, d.method_kwargs)
    IN  IF whole.err # "none" THEN [err |-> whole.err, keys |-> {}]
        ELSE [err |-> "none", keys |-> bounded_index(whole.d)]

\* ByCategoryDataFrameDetector.index: one detector per category of the rows
\* without missing value, built when the index is read; the first constructor
\* that fails ends the evaluation. columns.item() raises a ValueError unless
\* there is one numerical column and one other column
by_category_index(d) ==
    LET cat_col == CHOOSE j \in Cols(d.obj) : d.obj.dtypes[j] # "num"
        sub(i) == detect(category_series(d.obj, Cell(d.obj, i, cat_col)), d.method,
                         d.method_kwargs)
        failed == {i \in complete(d.obj) : sub(i).err # "none"}
        first == CHOOSE i \in failed : \A j \in failed : i <= j
    IN  IF Cardinality({j \in Cols(d.obj) : d.obj.dtypes[j] = "num"}) # 1
           \/ Cardinality({j \in Cols(d.obj) : d.obj.dtypes[j] # "num"}) # 1
        THEN [err |-> "ValueError", keys |-> {}]
        ELSE IF failed # {} THEN [err |-> sub(first).err, keys |-> {}]
        ELSE [err |-> "none",
              keys |-> UNION {bounded_index(sub(i).d) : i \in complete(d.obj)}]

\* DetectorAccessor.__call__ with the name of a detector of numerical series:
\* on a table the detector by_category is built, on a series the named one
DetectorAccessor_call(obj, method, kw) ==
    IF method \notin {"bounded", "iqr"} THEN Raise("ValueError")
    ELSE IF obj.shape = "frame"
    THEN IF is_nums_and_cat_df(obj) THEN by_category_init(obj, NoDet, method, kw)
         ELSE Raise("TypeError")
    ELSE detect(obj, method, kw)

\* a column of the standardized table: (x - mean) / std
standardized(obj, j) ==
    LET xs == [i \in Pos(obj) |-> CellNum(Cell(obj, i, j))]
        m == mean(xs)
        sd == std(xs)
    IN  [i \in Pos(obj) |->
            IF IsNan(xs[i]) \/ IsNan(sd) \/ sd = 0 THEN nan
            ELSE ((xs[i] - m) * Scale) \div sd]

\* max of a set of floats, the undefined ones skipped
nanmax(S) ==
    LET T == {x \in S : ~IsNan(x)}
    IN  IF T = {} THEN nan ELSE CHOOSE x \in T : \A y \in T : y <= x

\* outliers.__init__ ; eps is <<>> when not given, <<e>> otherwise
outliers_init(obj, detector, eps, min_samples) ==
    IF obj.shape # "frame" THEN Raise("TypeError")
    ELSE IF ~is_numerics_df(obj) THEN Raise("TypeError")
    ELSE IF IsDet(detector) THEN Raise("ValueError")
    ELSE Ok([name |-> "outliers", obj |-> obj,
             eps |-> IF eps = <<>>
                     THEN nanmax({std(standardized(obj, j)) : j \in Cols(obj)})
                     ELSE eps[1],
             min_samples |-> min_samples])

\* the clustering collaborator: the points that are neither dense nor within
\* eps of a dense point
DBSCAN_noise(pts, eps, min_samples) ==
    LET P == DOMAIN pts
        dist2(p, q) == Sum([j \in 1..Len(pts[p]) |->
                               (pts[p][j] - pts[q][j]) * (pts[p][j] - pts[q][j])])
        near(p) == {q \in P : dist2(p, q) <= eps * eps}
        core(p) == Cardinality(near(p)) >= min_samples
    IN  {p \in P : ~core(p) /\ \A q \in near(p) : ~core(q)}

\* outliers.index: the rows with a missing cell are left out of the clustering,
\* and any failure of it is raised as a ValueError
outliers_index(d) ==
    LET z == [j \in Cols(d.obj) |-> standardized(d.obj, j)]
        kept == {i \in Pos(d.obj) : \A j \in Cols(d.obj) : ~IsNan(z[j][i])}
        pts == [i \in kept |-> [j \in Cols(d.obj) |-> z[j][i]]]
        mask == [i \in Pos(d.obj) |->
                    i \in kept /\ i \in DBSCAN_noise(pts, d.eps, d.min_samples)]
    IN  IF kept = {} \/ IsNan(d.eps) \/ d.eps <= 0
        THEN [err |-> "ValueError", keys |-> {}]
        ELSE [err |-> "none", keys |-> mask_index(d.obj, mask)]

(***************************************************************************)
(* index, dispatched on the detector's kind                                *)
(***************************************************************************)
BoundStyle == {"bounded", "quantiles", "iqr", "zscore", "modzscore"}
Gaussian == {"iqr", "zscore", "modzscore"}

\* the flagged row keys; err is the error the evaluation raises, if any
index(d) ==
    CASE d.name \in BoundStyle -> [err |-> "none", keys |-> bounded_index(d)]
      [] d.name = "enum" -> [err |-> "none", keys |-> enum_index(d)]
      [] d.name \in {"counts", "freq"} -> [err |-> "none", keys |-> counts_index(d)]
      [] d.name = "value" -> [err |-> "none", keys |-> value_index(d)]
      [] d.name = "missing" -> [err |-> "none", keys |-> missing_index(d)]
      [] d.name = "duplicated" -> duplicated_index(d)
      [] d.name = "custom" -> custom_index(d)
      [] d.name = "keycollision" -> [err |-> "none", keys |-> keycollision_index(d)]
      [] d.name = "by_category" -> by_category_index(d)
      [] d.name = "outliers" -> outliers_index(d)
      [] d.name = "types" -> [err |-> "none", keys |-> types_index(d)]

\* is_error as it would be if it tested row positions against the index
is_error_mut(d) ==
    LET idx == index(d).keys
    IN  Series("bool", [i \in Pos(d.obj) |->
                           [k |-> d.obj.rows[i].k, c |-> <<(i - 1) \in idx>>]])

\* _Detector.is_error and not_error: a boolean Series over the row keys of the
\* object, in their order, true where the key is (is not) in the index
is_error(d) ==
    LET idx == index(d).keys
    IN  Series("bool", [i \in Pos(d.obj) |->
                           [k |-> d.obj.rows[i].k, c |-> <<d.obj.rows[i].k \in idx>>]])

not_error(d) ==
    LET idx == index(d).keys
    IN  Series("bool", [i \in Pos(d.obj) |->
                           [k |-> d.obj.rows[i].k, c |-> <<~(d.obj.rows[i].k \in idx)>>]])

(***************************************************************************)
(* The runs                                                                *)
(***************************************************************************)
Init ==
    /\ dets = <<>>
    /\ err = "none"
    /\ last = [op |-> "none"]

\* the outcome r of a constructor called with the arguments a
Construct(r, a) ==
    /\ last' = a
    /\ IF r.err = "none"
       THEN dets' = Append(dets, r.d) /\ err' = err
       ELSE dets' = dets /\ err' = r.err

CanFit == dets = <<>> /\ err = "none"
CanClone == Len(dets) = 1 /\ err = "none"

BoundArgs == {NINF, 0, 2 * Scale, inf}
InclusiveArgs == InclusiveValues \cup {"outside"}

FitBounded ==
    /\ CanFit
    /\ \E obj \in FitNum, lo \in BoundArgs, up \in BoundArgs, inclusive \in InclusiveArgs :
          Construct(bounded_init("bounded", obj, NoDet, lo, up, inclusive),
                    [op |-> "bounded", mode |-> "fit", lower |-> lo,
                     upper |-> up, inclusive |-> inclusive])

QuantileArgs == {0, Scale \div 4, 3 * (Scale \div 4), Scale}

FitQuantiles ==
    /\ CanFit
    /\ \E obj \in FitNum, lq \in QuantileArgs, uq \in QuantileArgs, inclusive \in InclusiveValues :
          Construct(quantiles_init(obj, NoDet, lq, uq, inclusive),
                    [op |-> "quantiles", mode |-> "fit", lowerq |-> lq, upperq |-> uq])

ThresholdArgs == {-Scale, 0, Scale, 2 * Scale}
NormaltestArgs == {"ignore", "error"}
TransformArgs == {"None", "boxcox"}

gaussian_new(name, obj, detector_obj, threshold, inclusive, sided, normal, pvalue, transform) ==
    CASE name = "iqr" -> iqr_init(obj, detector_obj, threshold, inclusive, sided, normal,
                                  pvalue, transform)
      [] name = "zscore" -> zscore_init(obj, detector_obj, threshold, inclusive, sided,
                                        normal, pvalue, transform)
      [] name = "modzscore" -> modzscore_init(obj, detector_obj, threshold, inclusive, sided,
                                              normal, pvalue, transform)

\* two columns long enough for the normality test: one symmetric about its
\* middle, one with all its weight on the left
NormalLen == MinNormalTest + 1
Symmetric == [i \in 1..NormalLen |->
                 IntCell(IF 2 * i < NormalLen + 1 THEN 0 ELSE IF 2 * i = NormalLen + 1 THEN 1 ELSE 2)]
Skewed == [i \in 1..NormalLen |-> IntCell(IF i < NormalLen THEN 0 ELSE 2)]
\* the column of the test of iqr
series_test_gaussian ==
    Series("num", MkRows(<<IntCell(0), IntCell(0), IntCell(0), IntCell(100), IntCell(-1),
                           IntCell(1), IntCell(-1), IntCell(1), IntCell(-6), IntCell(6)>>,
                         "range"))
LongNum == {Series("num", MkRows(Symmetric, "range")), Series("num", MkRows(Skewed, "range")),
            series_test_gaussian}

FitGaussian ==
    /\ CanFit
    /\ \E name \in Gaussian, obj \in FitNum \cup LongNum, threshold \in ThresholdArgs,
          inclusive \in InclusiveValues, sided \in SidedValues,
          normal \in NormaltestArgs, transform \in TransformArgs :
          /\ transform # "None" => ~hasnans(obj)
          /\ obj = series_test_gaussian => name = "iqr"
          /\ Construct(gaussian_new(name, obj, NoDet, threshold, inclusive, sided, normal,
                                    PvalueDefault, transform),
                       [op |-> name, mode |-> "fit"])

\* series.cleaner.detect(detector): a detector of the same kind built on obj
\* from the detector src, the other arguments left to their defaults
CloneBound ==
    /\ CanClone
    /\ \E obj \in CloneNum :
          LET src == dets[Len(dets)]
          IN  /\ src.name \in {"bounded", "quantiles"}
              /\ Construct(IF src.name = "bounded"
                           THEN bounded_init("bounded", obj, src, NINF, inf, "both")
                           ELSE quantiles_init(obj, src, 0, Scale, "both"),
                           [op |-> src.name, mode |-> "clone"])

\* the same for iqr, zscore and modzscore
CloneGaussian ==
    /\ CanClone
    /\ \E obj \in CloneNum :
          LET src == dets[Len(dets)]
          IN  /\ src.name \in Gaussian
              /\ src.transform # "None" => ~hasnans(obj)
              /\ Construct(gaussian_new(src.name, obj, src, Scale, "both", "both", "ignore",
                                        PvalueDefault, "None"),
                           [op |-> src.name, mode |-> "clone"])

(***************************************************************************)
(* The runs of the other detectors                                         *)
(***************************************************************************)
T_ab == <<"a", " ", "b">>
T_ba == <<"b", " ", "a">>
T_Ab == <<"A", " ", "b">>
T_42 == <<"4", "2">>

\* text columns: two texts and the missing value for the detectors on values,
\* the three spellings of one name and a text without letters for keycollision
ValCells == {StrCell(T_ab), StrCell(T_42), NaN}
KeyCells == {StrCell(T_ab), StrCell(T_ba), StrCell(T_Ab), StrCell(T_42), NaN}

ObjSeries(cells, n, lay) == {Series("object", MkRows(c, lay)) : c \in SeqsUpTo(cells, n)}
FitVal == ObjSeries(ValCells, MaxRows, "unsorted")
CloneVal == ObjSeries(ValCells, MaxCloneRows, "range")
FitKey == ObjSeries(KeyCells, MaxRows, "unsorted") \ {Series("object", <<>>)}
CloneKey == ObjSeries(KeyCells, MaxCloneRows, "range") \ {Series("object", <<>>)}

\* tables of a numerical and a text column, and of two numerical columns
MixedRows == {<<IntCell(0), StrCell(<<"a">>)>>, <<IntCell(2), StrCell(<<"a">>)>>,
              <<IntCell(2), StrCell(<<"b">>)>>, <<NaN, StrCell(<<"a">>)>>,
              <<IntCell(0), NaN>>}
NumRows == {<<IntCell(0), IntCell(0)>>, <<IntCell(2), IntCell(0)>>,
            <<IntCell(2), IntCell(2)>>, <<IntCell(0), IntCell(2)>>,
            <<NaN, IntCell(0)>>}

MkFrame(dtypes, rs, lay) ==
    Frame(dtypes, [i \in 1..Len(rs) |-> [k |-> RowKey(lay, i), c |-> rs[i]]])
FitMixed == {MkFrame(<<"num", "object">>, rs, "unsorted") : rs \in SeqsUpTo(MixedRows, MaxRows)}
CloneMixed == {MkFrame(<<"num", "object">>, rs, "range") : rs \in SeqsUpTo(MixedRows, MaxCloneRows)}
FitNumFrame == {MkFrame(<<"num", "num">>, rs, "unsorted") : rs \in SeqsUpTo(NumRows, MaxRows)}
CloneNumFrame == {MkFrame(<<"num", "num">>, rs, "range") : rs \in SeqsUpTo(NumRows, MaxCloneRows)}

FitEnum ==
    /\ CanFit
    /\ \E obj \in FitVal, vals \in SUBSET (ValCells \ {NaN}), forbidden \in BOOLEAN :
          Construct(enum_init(obj, NoDet, vals, forbidden), [op |-> "enum", mode |-> "fit"])

CountArgs == {0, 1, 2}

FitCounts ==
    /\ CanFit
    /\ \E obj \in FitVal, n \in CountArgs :
          Construct(counts_init(obj, NoDet, n), [op |-> "counts", mode |-> "fit"])

FreqArgs == {0, Scale \div 4, Scale \div 2, Scale}

FitFreq ==
    /\ CanFit
    /\ \E obj \in FitVal, freq \in FreqArgs :
          Construct(freq_init(obj, NoDet, freq), [op |-> "freq", mode |-> "fit"])

\* columns of integers, of floats and of texts for the detector value
IntCells == {IntCell(0), IntCell(2)}
FloatCells == {FloatCell(0), FloatCell(2), NaN}
TypedSeries(n, lay) ==
    {Series("num", MkRows(c, lay)) : c \in SeqsUpTo(IntCells, n) \cup SeqsUpTo(FloatCells, n)}
        \cup ObjSeries(ValCells, n, lay)
FitTyped == TypedSeries(MaxRows, "unsorted")
CloneTyped == TypedSeries(MaxCloneRows, "range")

ValueArgs == {NoValue, IntCell(2), FloatCell(2), StrCell(T_ab)}
\* whether the runtime shares the object of a text equal to the value
SharedArgs(value) == IF value.t = "str" THEN BOOLEAN ELSE {FALSE}

FitValue ==
    /\ CanFit
    /\ \E obj \in FitTyped, value \in ValueArgs, check_type \in BOOLEAN, forbidden \in BOOLEAN :
          \E shared \in SharedArgs(value) :
              Construct(value_init(obj, NoDet, value, check_type, forbidden, shared),
                        [op |-> "value", mode |-> "fit"])

\* a detector value built on obj from the detector src
CloneValue ==
    /\ CanClone
    /\ LET src == dets[Len(dets)]
       IN  /\ src.name = "value"
           /\ \E obj \in {o \in CloneTyped : o.dtypes = src.obj.dtypes},
                 shared \in SharedArgs(src.value) :
                 Construct(value_init(obj, src, NoValue, TRUE, FALSE, shared),
                           [op |-> "value", mode |-> "clone"])

\* the runs of the detector value
NextValue == FitValue \/ CloneValue

SpecValue == Init /\ [][NextValue]_vars

HowArgs == {"any", "all", "some"}

FitMissing ==
    /\ CanFit
    /\ \E obj \in FitNum \cup FitMixed, how \in HowArgs :
          Construct(missing_init(obj, NoDet, how), [op |-> "missing", mode |-> "fit"])

KeepArgs == KeepValues \cup {"one"}

FitDuplicated ==
    /\ CanFit
    /\ \E obj \in FitNum \cup FitMixed, subset \in {{}, {2}}, keep \in KeepArgs :
          /\ obj.shape = "series" => subset = {}
          /\ Construct(duplicated_init(obj, NoDet, subset, keep),
                       [op |-> "duplicated", mode |-> "fit"])

FitCustom ==
    /\ CanFit
    /\ \E obj \in FitNum \ {Series("num", <<>>)}, f \in ErrorFuncs :
          Construct(custom_init(obj, NoDet, f), [op |-> "custom", mode |-> "fit", f |-> f])

KeysArgs == {"fingerprint", "ngram"}

FitKeycollision ==
    /\ CanFit
    /\ \E obj \in FitKey, keys \in KeysArgs :
          Construct(keycollision_init(obj, NoDet, keys),
                    [op |-> "keycollision", mode |-> "fit"])

\* the method and the keyword arguments given to by_category
ByCategoryArgs ==
    {[method |-> "bounded", kw |-> [lower |-> 0, upper |-> Scale]],
     [method |-> "bounded", kw |-> [lower |-> Scale, upper |-> 0]],
     [method |-> "iqr", kw |-> [threshold |-> 0]],
     [method |-> "iqr", kw |-> [threshold |-> -Scale]],
     [method |-> "nomethod", kw |-> [threshold |-> 0]]}

FitByCategory ==
    /\ CanFit
    /\ \E obj \in FitMixed, a \in ByCategoryArgs :
          Construct(by_category_init(obj, NoDet, a.method, a.kw),
                    [op |-> "by_category", mode |-> "fit"])

EpsArgs == {<<>>, <<Scale>>, <<2 * Scale>>, <<0>>}
MinSamplesArgs == {1, 2}

FitOutliers ==
    /\ CanFit
    /\ \E obj \in FitNumFrame, eps \in EpsArgs, min_samples \in MinSamplesArgs :
          Construct(outliers_init(obj, NoDet, eps, min_samples),
                    [op |-> "outliers", mode |-> "fit"])

\* a detector on values built on obj from the detector src
CloneValues ==
    /\ CanClone
    /\ \E obj \in CloneVal :
          LET src == dets[Len(dets)]
          IN  /\ src.name \in {"enum", "counts", "freq"}
              /\ Construct(CASE src.name = "enum" -> enum_init(obj, src, {}, FALSE)
                             [] src.name = "counts" -> counts_init(obj, src, 1)
                             [] src.name = "freq" -> freq_init(obj, src, Scale \div 10),
                           [op |-> src.name, mode |-> "clone"])

\* the same for missing, duplicated and custom
CloneBasic ==
    /\ CanClone
    /\ LET src == dets[Len(dets)]
       IN  /\ src.name \in {"missing", "duplicated", "custom"}
           /\ \E obj \in IF src.obj.shape = "series" THEN CloneNum \ {Series("num", <<>>)}
                         ELSE CloneMixed :
                 Construct(CASE src.name = "missing" -> missing_init(obj, src, "any")
                             [] src.name = "duplicated" -> duplicated_init(obj, src, {}, "first")
                             [] src.name = "custom" -> custom_init(obj, src, "None"),
                           [op |-> src.name, mode |-> "clone"])

\* the same for keycollision
CloneKeycollision ==
    /\ CanClone
    /\ \E obj \in CloneKey :
          LET src == dets[Len(dets)]
          IN  /\ src.name = "keycollision"
              /\ Construct(keycollision_init(obj, src, "fingerprint"),
                           [op |-> src.name, mode |-> "clone"])

\* by_category and outliers given a detector and data of any kind: the
\* constructor refuses
CloneTable ==
    /\ CanClone
    /\ LET src == dets[Len(dets)]
       IN  /\ src.name \in {"by_category", "outliers"}
           /\ \E obj \in CloneMixed \cup CloneNumFrame \cup CloneNum :
                 Construct(IF src.name = "by_category"
                           THEN by_category_init(obj, src, src.method, src.method_kwargs)
                           ELSE outliers_init(obj, src, <<>>, 2),
                           [op |-> src.name, mode |-> "clone", shape |-> obj.shape,
                            dtypes |-> obj.dtypes])

NextBound == FitBounded \/ FitQuantiles \/ FitGaussian \/ CloneBound \/ CloneGaussian

SpecBound == Init /\ [][NextBound]_vars

\* the runs of the detectors on texts
NextText == FitKeycollision \/ CloneKeycollision

SpecText == Init /\ [][NextText]_vars

\* columns of texts, whole numbers and missing values, with row keys in
\* increasing order or not
AnyCells == {StrCell(<<"a">>), IntCell(2), NaN}
FitAny == UNION {ObjSeries(AnyCells, MaxRows, lay) : lay \in {"range", "unsorted"}}
              \ {Series("object", <<>>)}
PtypeArgs == PythonTypes \cup {"None", "toto"}

FitTypes ==
    /\ CanFit
    /\ \E obj \in FitAny, ptype \in PtypeArgs :
          Construct(types_init(obj, NoDet, ptype), [op |-> "types", mode |-> "fit"])

\* the runs of the detector types
SpecTypes == Init /\ [][FitTypes]_vars

\* Series.clip(lower, upper) on one cell: the larger of the value and lower,
\* then the smaller of that and upper; a missing bound bounds nothing and a
\* missing value stays missing
clip_cell(v, lo, up) ==
    LET x == CellNum(v)
        y == IF Lt(x, lo) THEN lo ELSE x
        z == IF Gt(y, up) THEN up ELSE y
    IN  IF isna(v) \/ z = x THEN v ELSE FxCell(z)

\* clip(detector): the data of the detector clipped to its bounds
clip(d) ==
    Series("num", [i \in Pos(d.obj) |->
                      [k |-> d.obj.rows[i].k, c |-> <<clip_cell(Val(d.obj, i), lower(d), upper(d))>>]])

\* to_na(detector): series.where(detector.not_error(), np.nan), errors being
\* the index of the detector
to_na(d, errors) ==
    Series("num", [i \in Pos(d.obj) |->
                      [k |-> d.obj.rows[i].k,
                       c |-> <<IF d.obj.rows[i].k \notin errors THEN Val(d.obj, i) ELSE NaN>>]])

\* series.cleaner.clean.clip(detector, inplace=True): the series the detector
\* is bound to is modified
Clip ==
    /\ Len(dets) = 1 /\ err = "none" /\ dets[1].name \in BoundStyle
    /\ dets' = [dets EXCEPT ![1].obj = clip(dets[1])]
    /\ last' = [op |-> "clip", mode |-> "inplace"]
    /\ err' = err

\* series.cleaner.clean.to_na(detector, inplace=True)
ToNa ==
    /\ Len(dets) = 1 /\ err = "none" /\ dets[1].name \in BoundStyle
    /\ dets' = [dets EXCEPT ![1].obj = to_na(dets[1], bounded_index(dets[1]))]
    /\ last' = [op |-> "to_na", mode |-> "inplace"]
    /\ err' = err

\* the runs of bound-style detectors and of the cleaning of their data
NextClean == FitBounded \/ FitQuantiles \/ FitGaussian \/ Clip \/ ToNa

SpecClean == Init /\ [][NextClean]_vars

\* cleaner.detect(src) on obj: the class of src called with src as detector_obj
\* and its other arguments left to their defaults
detect_from(obj, src) ==
    CASE src.name = "bounded" -> bounded_init("bounded", obj, src, NINF, inf, "both")
      [] src.name = "quantiles" -> quantiles_init(obj, src, 0, Scale, "both")
      [] src.name \in Gaussian -> gaussian_new(src.name, obj, src, Scale, "both", "both",
                                               "ignore", PvalueDefault, "None")
      [] src.name = "counts" -> counts_init(obj, src, 1)
      [] src.name = "keycollision" -> keycollision_init(obj, src, "fingerprint")

\* a third detector built on a column of one row from the second, itself
\* built from the first
CloneChain ==
    /\ Len(dets) = 2 /\ err = "none"
    /\ LET src == dets[2]
       IN  /\ src.name \in {"bounded", "quantiles", "counts", "keycollision"} \cup Gaussian
           /\ \E obj \in {o \in CloneKey \cup CloneNum :
                              Len(o.rows) = 1 /\ o.dtypes = src.obj.dtypes} :
                 /\ (src.name \in Gaussian /\ src.transform # "None") => ~hasnans(obj)
                 /\ Construct(detect_from(obj, src), [op |-> src.name, mode |-> "chain"])

\* the runs of detectors built from one another
NextChain ==
    \/ FitKeycollision \/ CloneKeycollision \/ FitCounts \/ CloneValues
    \/ FitBounded \/ CloneBound \/ CloneChain

SpecChain == Init /\ [][NextChain]_vars

\* by_category.index as it would be if it kept the rows without missing value
\* as the data of the detector
index_effect_mut(d) ==
    IF d.name = "by_category"
    THEN [d EXCEPT !.obj = Frame(d.obj.dtypes, SelectSeq(d.obj.rows,
                                     LAMBDA r : \A j \in Cols(d.obj) : ~isna(r.c[j])))]
    ELSE d

\* the detector by_category after the loop of index over its categories, subs
\* being the detector each complete row gets for its category: the categories
\* are taken in the order of their first row and _detector keeps the last
\* detector that was built
keep_last(d, subs) ==
    LET cat_col == CHOOSE j \in Cols(d.obj) : d.obj.dtypes[j] # "num"
        cat(i) == Cell(d.obj, i, cat_col)
        firsts == {i \in DOMAIN subs : \A j \in DOMAIN subs : j < i => cat(j) # cat(i)}
        done == {i \in firsts : \A j \in firsts : j <= i => subs[j].err = "none"}
        lastcat == CHOOSE i \in done : \A j \in done : j <= i
    IN  IF done = {} THEN d
        ELSE [f \in DOMAIN d \cup {"_detector"} |->
                 IF f = "_detector" THEN subs[lastcat].d ELSE d[f]]

\* the detector after one evaluation of index: by_category assigns _detector,
\* the other detectors assign nothing
index_effect(d) ==
    IF d.name = "by_category" /\ is_num_and_cat_df(d.obj)
    THEN keep_last(d, [i \in complete(d.obj) |->
                          detect(category_series(d.obj,
                                     Cell(d.obj, i, CHOOSE j \in Cols(d.obj) : d.obj.dtypes[j] # "num")),
                                 d.method, d.method_kwargs)])
    ELSE d

\* the members of _Detector that evaluate index
EvalOps == {"index", "is_error", "not_error", "n_errors", "has_errors", "detected", "valid"}

\* a member of a detector is read: index is evaluated once
Evaluate ==
    /\ dets # <<>> /\ err = "none"
    /\ \E k \in 1..Len(dets), m \in EvalOps :
          /\ dets' = [dets EXCEPT ![k] = index_effect(@)]
          /\ last' = [op |-> "evaluate", what |-> m, of |-> k]
    /\ err' = err

\* the runs of detectors that are evaluated
NextEval == FitByCategory \/ FitKeycollision \/ FitCounts \/ FitBounded \/ Evaluate

SpecEval == Init /\ [][NextEval]_vars

\* list.append on the list of values of the first detector. enum stores the
\* list its caller gave (self._values = values) and the property values returns
\* that list; a detector built from another one stores the list of its source
\* (detector_obj.values for enum, detector_obj._values for counts and freq).
\* The detectors of a run therefore hold one list object, which holder names:
\* the caller of enum, or the first detector
MutateList ==
    /\ dets # <<>> /\ err = "none" /\ last.op # "append"
    /\ dets[1].name \in {"enum", "counts", "freq"}
    /\ \E v \in ValCells \ {NaN} :
          /\ dets' = [k \in 1..Len(dets) |-> [dets[k] EXCEPT !._values = @ \cup {v}]]
          /\ last' = [op |-> "append", v |-> v,
                      holder |-> IF dets[1].name = "enum" THEN 0 ELSE 1]
    /\ err' = err

\* the runs of the detectors that keep a list of values
NextShared == FitEnum \/ FitCounts \/ FitFreq \/ CloneValues \/ MutateList

SpecShared == Init /\ [][NextShared]_vars

\* the texts given to fingerprints: letters, an accented letter, a digit, a
\* space and a colon
MaxText == 4
TextChars == {"a", "b", "A", "é", "4", " ", ":"}
Texts == SeqsUpTo(TextChars, MaxText)

InitKeys ==
    /\ dets = <<>>
    /\ err = "none"
    /\ last \in {[op |-> "text", text |-> t] : t \in Texts}

\* keycollision.fingerprints applied to a column of one text
CalcKeys ==
    /\ last.op = "text"
    /\ last' = [op |-> "fingerprints", text |-> last.text,
                key |-> fingerprints(StrCell(last.text))]
    /\ UNCHANGED <<dets, err>>

\* the keys of texts
SpecKeys == InitKeys /\ [][CalcKeys]_vars

\* data of every kind: series of numbers and of texts, tables of one numerical
\* and one text column, of numerical columns, of two numerical columns and a
\* text column, and of two text columns
WideRows == {<<IntCell(0), IntCell(2), StrCell(<<"a">>)>>, <<IntCell(2), IntCell(0), StrCell(<<"b">>)>>}
TextRows == {<<StrCell(<<"a">>), StrCell(<<"b">>)>>, <<StrCell(<<"b">>), StrCell(<<"b">>)>>}
KindData ==
    FitNum \cup FitVal \cup FitMixed \cup FitNumFrame
      \cup {MkFrame(<<"num", "num", "object">>, rs, "unsorted") : rs \in SeqsUpTo(WideRows, MaxRows)}
      \cup {MkFrame(<<"object", "object">>, rs, "unsorted") : rs \in SeqsUpTo(TextRows, MaxRows)}

KindNames == {"bounded", "iqr", "enum", "counts", "keycollision", "by_category", "outliers"}

\* the constructor of the detector name called on obj
KindInit(name, obj) ==
    CASE name = "bounded" -> bounded_init("bounded", obj, NoDet, 0, Scale, "both")
      [] name = "iqr" -> iqr_init(obj, NoDet, Scale, "both", "both", "ignore", PvalueDefault, "None")
      [] name = "enum" -> enum_init(obj, NoDet, {StrCell(T_ab)}, FALSE)
      [] name = "counts" -> counts_init(obj, NoDet, 1)
      [] name = "keycollision" -> keycollision_init(obj, NoDet, "fingerprint")
      [] name = "by_category" -> by_category_init(obj, NoDet, "iqr", [threshold |-> Scale])
      [] name = "outliers" -> outliers_init(obj, NoDet, <<>>, 2)

\* a detector built on data of any kind
FitKind ==
    /\ CanFit
    /\ \E name \in KindNames, obj \in KindData :
          Construct(KindInit(name, obj), [op |-> name, mode |-> "fit", obj |-> obj])

\* cleaner.detect('iqr') called on data of any kind
DetectKind ==
    /\ CanFit
    /\ \E obj \in KindData :
          Construct(DetectorAccessor_call(obj, "iqr", [threshold |-> Scale]),
                    [op |-> IF obj.shape = "frame" THEN "by_category" ELSE "iqr",
                     mode |-> "fit", obj |-> obj])

NextKind == FitKind \/ DetectKind

SpecKind == Init /\ [][NextKind]_vars

\* the runs of every detector
Next ==
    \/ FitBounded \/ FitQuantiles \/ FitGaussian \/ CloneBound \/ CloneGaussian
    \/ FitEnum \/ FitCounts \/ FitFreq \/ CloneValues
    \/ FitValue \/ CloneValue
    \/ FitMissing \/ FitDuplicated \/ FitCustom \/ CloneBasic
    \/ FitKeycollision \/ CloneKeycollision
    \/ FitByCategory \/ FitOutliers \/ CloneTable

Spec == Init /\ [][Next]_vars

(***************************************************************************)
(* Claims                                                                  *)
(***************************************************************************)
Dets == {dets[k] : k \in 1..Len(dets)}
BoundDets == {d \in Dets : d.name \in BoundStyle}
GaussDets == {d \in Dets : d.name \in Gaussian}
\* the row of key-flagged value: row i of d's object is flagged
Flagged(d, i) == d.obj.rows[i].k \in index(d).keys
Present(d) == {i \in Pos(d.obj) : ~isna(Val(d.obj, i))}
\* the run cloned a detector: dets[2] was built from dets[1]
Cloned == Len(dets) = 2

\* C6: a bound-style detector with lower < upper flags a non-missing value
\* exactly when it is outside the interval, each end closed or open as the
\* inclusive policy says
C6_Outside(d, v) ==
    CASE d.inclusive = "both" -> v < lower(d) \/ v > upper(d)
      [] d.inclusive = "neither" -> v <= lower(d) \/ v >= upper(d)
      [] d.inclusive = "left" -> v < lower(d) \/ v >= upper(d)
      [] d.inclusive = "right" -> v <= lower(d) \/ v > upper(d)

C6_InclusivePolicy ==
    \A d \in BoundDets :
        Lt(lower(d), upper(d)) =>
            \A i \in Present(d) : Flagged(d, i) <=> C6_Outside(d, CellNum(Val(d.obj, i)))

\* a value on the open upper end of a 'left' interval is flagged
C6_Witness ==
    \E d \in BoundDets :
        /\ d.inclusive = "left" /\ Lt(lower(d), upper(d))
        /\ \E i \in Present(d) : CellNum(Val(d.obj, i)) = upper(d) /\ Flagged(d, i)

\* C7: bounded built with lower >= upper, and quantiles built with
\* lowerq >= upperq, fail with a ValueError and return no detector
C7_InvertedBoundsFail ==
    /\ (last.op = "bounded" /\ last.mode = "fit" /\ last.lower >= last.upper)
          => (err = "ValueError" /\ dets = <<>>)
    /\ (last.op = "quantiles" /\ last.mode = "fit" /\ last.lowerq >= last.upperq)
          => (err = "ValueError" /\ dets = <<>>)

\* the case of equal bounds
C7_Witness ==
    /\ last.op = "bounded" /\ last.mode = "fit"
    /\ last.lower = last.upper /\ last.inclusive = "both"
    /\ err = "ValueError"

\* C8: every bound-style detector that was built has lower < upper
C8_LowerBelowUpper == \A d \in BoundDets : Lt(lower(d), upper(d))

\* C9: a one-sided iqr, zscore or modzscore reports the unused bound as
\* infinite, flags no value on that side, and keeps the computed bound on the
\* other side
C9_Computed(d) ==
    CASE d.name = "iqr" ->
            <<Sub(d.q25, Mul(d.threshold, d.iqr)), Add(d.q75, Mul(d.threshold, d.iqr))>>
      [] d.name = "zscore" ->
            <<Sub(d.mean, Mul(d.threshold, d.std)), Add(d.mean, Mul(d.threshold, d.std))>>
      [] d.name = "modzscore" ->
            <<Sub(d.median, modz_radius(d.threshold, d.mad)),
              Add(d.median, modz_radius(d.threshold, d.mad))>>

C9_AboveUpper(d, v) == IF d.inclusive \in {"both", "right"} THEN ~Le(v, upper(d)) ELSE ~Lt(v, upper(d))
C9_BelowLower(d, v) == IF d.inclusive \in {"both", "left"} THEN ~Le(lower(d), v) ELSE ~Lt(lower(d), v)

C9_Sided ==
    \A d \in GaussDets :
        /\ d.sided = "right" =>
              /\ lower(d) = NINF
              /\ d.transform = "None" => upper(d) = C9_Computed(d)[2]
              /\ \A i \in Present(d) : Flagged(d, i) <=> C9_AboveUpper(d, CellNum(Val(d.obj, i)))
        /\ d.sided = "left" =>
              /\ upper(d) = inf
              /\ d.transform = "None" => lower(d) = C9_Computed(d)[1]
              /\ \A i \in Present(d) : Flagged(d, i) <=> C9_BelowLower(d, CellNum(Val(d.obj, i)))

\* a right-sided detector holding a value below its computed lower bound,
\* which it does not flag
C9_Witness ==
    \E d \in GaussDets :
        /\ d.sided = "right" /\ IsFinite(d.lower)
        /\ \E i \in Present(d) : CellNum(Val(d.obj, i)) < d.lower /\ ~Flagged(d, i)

\* the parameters a detector reports: its properties, the object left out
Reported(d) ==
    [f \in (DOMAIN d) \ {"obj", "transformed", "lmbda", "_dict_keys", "shared"} |->
        CASE f = "lower" -> lower(d)
          [] f = "upper" -> upper(d)
          [] f = "_values" -> values(d)
          [] OTHER -> d[f]]

\* C2: a detector built from another one reports the parameters of its source
C2_CloneSameParams == Cloned => Reported(dets[2]) = Reported(dets[1])

\* C3: the clone of a detector fitted with a transform keeps the transform and
\* the fitted lmbda of its source
C3_CloneSameLmbda ==
    (Cloned /\ dets[1].name \in Gaussian /\ dets[1].transform # "None") =>
        /\ dets[2].transform = dets[1].transform
        /\ dets[2].lmbda = dets[1].lmbda

\* a row with a missing value
RowMissing(d, i) == \E j \in Cols(d.obj) : isna(Cell(d.obj, i, j))
Evaluated == {d \in Dets : index(d).err = "none"}
Unmasked == {"missing", "duplicated", "custom"}

C4_IndexWithinKeys == \A d \in Dets : index(d).keys \subseteq KeysOf(d.obj)

\* a detector on a table that flags a row after the rows with missing
\* values were dropped
C4_Witness ==
    \E d \in Dets :
        /\ d.name \in {"by_category", "outliers"}
        /\ \E i \in Pos(d.obj) : RowMissing(d, i)
        /\ index(d).keys # {}

\* C5: is_error is true on the keys of index, not_error is its negation, and
\* both carry the row keys of the object in their order
C5_Masks ==
    \A d \in Evaluated :
        LET e == is_error(d)
            ne == not_error(d)
            idx == index(d).keys
        IN  /\ Len(e.rows) = Len(d.obj.rows)
            /\ Len(ne.rows) = Len(d.obj.rows)
            /\ \A i \in Pos(d.obj) :
                  /\ e.rows[i].k = d.obj.rows[i].k
                  /\ ne.rows[i].k = d.obj.rows[i].k
                  /\ e.rows[i].c[1] <=> (d.obj.rows[i].k \in idx)
                  /\ ne.rows[i].c[1] <=> ~e.rows[i].c[1]

\* unsorted row keys, a flagged row after a row that is not
C5_Witness ==
    \E d \in Evaluated :
        LET e == is_error(d)
        IN  \E i, j \in Pos(d.obj) :
                /\ i < j /\ d.obj.rows[i].k > d.obj.rows[j].k
                /\ ~e.rows[i].c[1] /\ e.rows[j].c[1]

\* C10: keycollision, fitted, flags a non-missing row exactly when its text is
\* not the most frequent of the texts that have its key
C10_Count(d, i) == Cardinality({j \in Present(d) : Val(d.obj, j) = Val(d.obj, i)})
C10_Group(d, i) ==
    {j \in Present(d) : fingerprints(Val(d.obj, j)) = fingerprints(Val(d.obj, i))}

C10_CanonicalOfKey ==
    \A d \in Dets :
        (d.name = "keycollision" /\ d = dets[1]) =>
            \A i \in Present(d) :
                \* a text seen less often than another one of its key is flagged
                /\ (\E j \in C10_Group(d, i) : C10_Count(d, j) > C10_Count(d, i))
                      => Flagged(d, i)
                \* the text seen more often than every other one is not
                /\ (\A j \in C10_Group(d, i) :
                        Val(d.obj, j) # Val(d.obj, i) => C10_Count(d, j) < C10_Count(d, i))
                      => ~Flagged(d, i)
                \* among equals, the rows that are not flagged hold one text
                /\ \A j \in C10_Group(d, i) :
                      (~Flagged(d, i) /\ ~Flagged(d, j)) => Val(d.obj, j) = Val(d.obj, i)

\* C11: a keycollision detector built from another one never flags a row whose
\* key is absent from the map of its source
C11_UnseenKeyNotFlagged ==
    (Cloned /\ dets[2].name = "keycollision") =>
        \A i \in Present(dets[2]) :
            fingerprints(Val(dets[2].obj, i)) \notin DOMAIN dict_keys(dets[1].obj)
                => ~Flagged(dets[2], i)

\* C12: the map a keycollision detector built from another one exposes as
\* dict_keys is the map of its source
C12_CloneExposesSourceMap ==
    (Cloned /\ dets[2].name = "keycollision") =>
        dict_keys(dets[2].obj) = dict_keys(dets[1].obj)

\* the categories of a table, and the one-dimensional detector fitted alone
\* on the numeric values of the rows of one category
C13_NumCol(d) == CHOOSE j \in Cols(d.obj) : d.obj.dtypes[j] = "num"
C13_CatCol(d) == CHOOSE j \in Cols(d.obj) : d.obj.dtypes[j] # "num"
C13_Categories(d) ==
    {Cell(d.obj, i, C13_CatCol(d)) : i \in {j \in Pos(d.obj) : ~RowMissing(d, j)}}
C13_Alone(d, S) ==
    LET at == SelectSeq([i \in Pos(d.obj) |-> i], LAMBDA i : i \in S)
    IN  detect(Series("num", [n \in 1..Len(at) |->
                                 [k |-> d.obj.rows[at[n]].k,
                                  c |-> <<Cell(d.obj, at[n], C13_NumCol(d))>>]]),
               d.method, d.method_kwargs)
C13_GroupRows(d, c) ==
    {i \in Pos(d.obj) : ~RowMissing(d, i) /\ Cell(d.obj, i, C13_CatCol(d)) = c}

\* C13: the index of by_category is the union, over the categories, of the
\* index of the one-dimensional method fitted alone on the numeric values of
\* the rows of that category, the rows with a missing cell left out
C13_UnionOfGroups ==
    \A d \in Evaluated :
        d.name = "by_category" =>
            index(d).keys =
                UNION {index(C13_Alone(d, C13_GroupRows(d, c)).d).keys : c \in C13_Categories(d)}

\* two categories, a row flagged within its category that the method fitted
\* on the whole column leaves alone
C13_Witness ==
    \E d \in Evaluated :
        /\ d.name = "by_category" /\ d.method = "iqr"
        /\ Cardinality(C13_Categories(d)) = 2
        /\ LET whole == C13_Alone(d, {i \in Pos(d.obj) : ~RowMissing(d, i)})
           IN  /\ whole.err = "none"
               /\ index(d).keys \ index(whole.d).keys # {}

\* the number of rows of d's object that hold the value of row i
C14_Occurrences(d, i) == Cardinality({j \in Pos(d.obj) : Val(d.obj, j) = Val(d.obj, i)})

\* C14: counts(n), fitted, flags a non-missing row exactly when its value
\* occurs at most n times in the column
C14_CountsAtMostN ==
    (Len(dets) >= 1 /\ dets[1].name = "counts") =>
        \A i \in Present(dets[1]) :
            Flagged(dets[1], i) <=> C14_Occurrences(dets[1], i) <= dets[1].n

\* a value seen exactly n times is flagged next to one seen n + 1 times that
\* is not
C14_Witness ==
    /\ Len(dets) >= 1 /\ dets[1].name = "counts"
    /\ \E i, j \in Present(dets[1]) :
          /\ C14_Occurrences(dets[1], i) = dets[1].n /\ Flagged(dets[1], i)
          /\ C14_Occurrences(dets[1], j) = dets[1].n + 1 /\ ~Flagged(dets[1], j)

\* C15: a counts or freq detector built from another one flags a non-missing
\* row of the new data exactly when its value is not among the valid values
\* computed on the data of its source
C15_CloneUsesSourceValues ==
    (Cloned /\ dets[2].name \in {"counts", "freq"}) =>
        \A i \in Present(dets[2]) :
            Flagged(dets[2], i) <=> Val(dets[2].obj, i) \notin values(dets[1])

\* a value seen more than n times in the new data, flagged all the same
C15_Witness ==
    /\ Cloned /\ dets[2].name = "counts" /\ values(dets[1]) # {}
    /\ \E i \in Present(dets[2]) :
          C14_Occurrences(dets[2], i) > dets[2].n /\ Flagged(dets[2], i)

\* a value detector built by the run, fitted or cloned
C16_ValueDets == {d \in Dets : d.name = "value"}

\* C16: with check_type, value leaves a non-missing row unflagged exactly when
\* its element has the type of the value and equals it; without check_type,
\* exactly when it equals the value; forbidden inverts the flag
C16_ValueTypeAndEquality ==
    \A d \in C16_ValueDets :
        \A i \in Present(d) :
            LET x == Val(d.obj, i)
                accepted == IF d.check_type THEN x.t = d.value.t /\ py_eq(x, d.value)
                            ELSE py_eq(x, d.value)
            IN  Flagged(d, i) <=> IF d.forbidden THEN accepted ELSE ~accepted

\* the column of the transformed values of a detector, under the same row keys
C17_Transformed(d) ==
    Series("num", [i \in Pos(d.obj) |->
                      [k |-> d.obj.rows[i].k, c |-> <<FxCell(d.transformed[i])>>]])

\* the same detector, without transform, fitted on that column
C17_OnTransformed(d) ==
    gaussian_new(d.name, C17_Transformed(d), NoDet, d.threshold, d.inclusive, d.sided,
                 "ignore", d.pvalue, "None")

C18_NoTransform(d) ==
    gaussian_new(d.name, d.obj, NoDet, d.threshold, d.inclusive, d.sided, "ignore",
                 d.pvalue, "None")

\* C18: iqr, zscore and modzscore fitted with a transform on data that test
\* normal report the lambda of the transform, and have the bounds of the same
\* detector fitted without transform
C18_NormalKeepsLambda ==
    (Len(dets) >= 1 /\ dets[1].name \in Gaussian) =>
        LET d == dets[1]
        IN  (d.transform # "None" /\ d.isnormal) =>
                /\ lmbda(d).err = "none"
                /\ lower(d) = lower(C18_NoTransform(d).d)
                /\ upper(d) = upper(C18_NoTransform(d).d)

\* the values of the rows a detector flags
C19_FlaggedValues(d) == {Val(d.obj, i).n : i \in {j \in Present(d) : Flagged(d, j)}}

\* C19: iqr fitted with threshold k and no transform in effect has
\* lower = Q25 - k * IQR and upper = Q75 + k * IQR, the quartiles taken over the
\* non-missing values; with the default inclusive policy it flags a
\* non-missing value exactly when it is below lower or above upper; k = 2 over
\* [0, 0, 0, 100, -1, 1, -1, 1, -6, 6] gives -4.25 and 4.5 and flags 100, -6, 6
C19_IqrBounds ==
    (Len(dets) >= 1 /\ dets[1].name = "iqr") =>
        LET d == dets[1]
            xs == dropna(Floats(d.obj))
            Q25 == quantile(xs, Scale \div 4)
            Q75 == quantile(xs, 3 * (Scale \div 4))
            IQR == Sub(Q75, Q25)
            lo == Sub(Q25, Mul(d.threshold, IQR))
            up == Add(Q75, Mul(d.threshold, IQR))
        IN  (d.transform = "None" \/ d.isnormal) =>
                /\ d.lower = lo /\ d.upper = up
                /\ (d.inclusive = "both" /\ d.sided = "both") =>
                      \A i \in Present(d) :
                          Flagged(d, i) <=> (Lt(CellNum(Val(d.obj, i)), lo)
                                                \/ Gt(CellNum(Val(d.obj, i)), up))
                /\ (d.obj = series_test_gaussian /\ d.threshold = 2 * Scale) =>
                      /\ d.lower = -(4 * Scale + Scale \div 4)
                      /\ d.upper = 4 * Scale + Scale \div 2
                      /\ (d.inclusive = "both" /\ d.sided = "both") =>
                            C19_FlaggedValues(d) = {100, -6, 6}

\* the column of the example, fitted with k = 2 and the default policy
C19_Witness ==
    /\ Len(dets) >= 1 /\ dets[1].name = "iqr" /\ dets[1].transform = "None"
    /\ dets[1].obj = series_test_gaussian /\ dets[1].threshold = 2 * Scale
    /\ dets[1].inclusive = "both" /\ dets[1].sided = "both"
    /\ C19_FlaggedValues(dets[1]) = {100, -6, 6}

\* the evaluation of index fails because of a parameter the constructor took:
\* a method or keyword arguments that by_category hands to the detectors of
\* its groups, a value of keep that duplicated does not know, an eps that the
\* clustering refuses
C20_ConfigErrorAtEvaluation(d) ==
    CASE d.name = "by_category" -> index(d).err # "none"
      [] d.name = "duplicated" -> d.keep \notin KeepValues /\ index(d).err # "none"
      [] d.name = "outliers" -> ~IsNan(d.eps) /\ d.eps <= 0 /\ index(d).err # "none"
      [] OTHER -> FALSE

\* C20: once a detector is constructed, evaluating its index raises no
\* configuration error, by_category built with an invalid method or invalid
\* parameters for the detectors of its groups included
C20_ConfigErrorsAtConstruction == \A d \in Dets : ~C20_ConfigErrorAtEvaluation(d)

\* C21: custom built with a callable of the right number of arguments is
\* constructed whatever the callable returns; when it returns something else
\* than booleans, every evaluation of index raises a TypeError
C21_PredicateErrorIsLazy ==
    /\ (last.op = "custom" /\ last.mode = "fit" /\ Callable(last.f) /\ nb_of_args(last.f) = 1)
          => (err = "none" /\ Len(dets) = 1 /\ dets[1].error_func = last.f)
    /\ \A d \in Dets :
          (d.name = "custom" /\ ~returns_bool(d.error_func)) => index(d).err = "TypeError"

\* a detector built with a function that returns its argument
C21_Witness ==
    /\ last.op = "custom" /\ last.mode = "fit" /\ last.f = "identity"
    /\ err = "none" /\ Len(dets) = 1
    /\ index(dets[1]).err = "TypeError"

\* the data a detector applies to
C22_RightKind(name, obj) ==
    CASE name \in {"bounded", "iqr"} -> obj.shape = "series" /\ obj.dtypes = <<"num">>
      [] name \in {"enum", "counts"} -> obj.shape = "series"
      [] name = "keycollision" -> obj.shape = "series" /\ obj.dtypes = <<"object">>
      [] name = "by_category" -> obj.shape = "frame" /\ is_num_and_cat_df(obj)
      [] name = "outliers" -> obj.shape = "frame" /\ is_numerics_df(obj)

\* C22: a detector constructed on data of the wrong kind, shape or dtype (a
\* detector of series on a table, a numerical detector on a text column, a text
\* detector on a numerical column, by_category on a table that is not one
\* numerical column and one text column) fails at construction with a
\* TypeError and no detector is built
C22_WrongKindFailsAtConstruction ==
    (last.op \in KindNames /\ ~C22_RightKind(last.op, last.obj))
        => (err = "TypeError" /\ dets = <<>>)

\* the last call gave an existing detector to by_category or to outliers
C23_CloneCall == last.op \in {"by_category", "outliers"} /\ last.mode = "clone"

\* the data passes the checks of the base classes
C23_RightData ==
    /\ last.shape = "frame"
    /\ last.op = "outliers" => \A j \in DOMAIN last.dtypes : last.dtypes[j] = "num"

\* C23: by_category and outliers given an existing detector always fail and
\* never produce a clone; the error is a ValueError when the data passes the
\* checks of the base classes (a table; for outliers a table of numerical
\* columns) and the TypeError of these checks otherwise
C23_CloneAlwaysFails ==
    /\ C23_CloneCall =>
          /\ Len(dets) = 1
          /\ err = IF C23_RightData THEN "ValueError" ELSE "TypeError"
    /\ Len(dets) = 2 => dets[2].name \notin {"by_category", "outliers"}

\* by_category given a detector and a table
C23_Witness ==
    /\ C23_CloneCall /\ last.op = "by_category" /\ last.shape = "frame"
    /\ err = "ValueError" /\ Len(dets) = 1

\* C23 as stated: the error is a ValueError whatever the data
C23_AlwaysValueError == C23_CloneCall => (err = "ValueError" /\ Len(dets) = 1)

\* the type of the first value of d that is not missing, in the order of the rows
C24_Reference(d) ==
    py_type(Val(d.obj, CHOOSE i \in Present(d) : \A j \in Present(d) : i <= j))

\* C24: types built without ptype compares with the type of the first value
\* that is not missing, in the order of the rows, and flags a row that is not
\* missing exactly when its type differs from it
C24_FirstNonMissingType ==
    \A d \in Dets :
        (d.name = "types" /\ d._ptype = "None" /\ Present(d) # {}) =>
            /\ types_ptype(d) = C24_Reference(d)
            /\ \A i \in Present(d) :
                  Flagged(d, i) <=> py_type(Val(d.obj, i)) # C24_Reference(d)

\* every text of d is the only text that has its key
C25_Canonical(d) ==
    \A i, j \in Present(d) :
        fingerprints(Val(d.obj, i)) = fingerprints(Val(d.obj, j)) => Val(d.obj, i) = Val(d.obj, j)

\* C25: keycollision fitted on a column where the texts of each key are all
\* the same text flags no row, missing values in the column or not
C25_CanonicalDataNotFlagged ==
    \A d \in Dets :
        (d.name = "keycollision" /\ d = dets[1] /\ C25_Canonical(d)) =>
            \A i \in Pos(d.obj) : ~Flagged(d, i)

\* the letter tokens of a text: lowercase, without accents, cut at every
\* character that is not a letter
C26_Tokens(t) ==
    LET toks == split(letters_only(to_ascii(str_lower(t))), <<>>)
    IN  {toks[i] : i \in 1..Len(toks)} \ {<<>>}

\* C26: the key of a text is its distinct normalized letter tokens, sorted and
\* joined by single spaces, so that every letter token takes part in the key,
\* and the key of a key is the key
C26_KeyIsSortedTokens ==
    last.op = "fingerprints" =>
        /\ last.key = join(sorted(C26_Tokens(last.text)))
        /\ fingerprints(StrCell(last.key)) = last.key

\* C27: a value appended to a list held by the caller or by another detector
\* changes neither the parameters a detector reports nor the rows it flags
C27_NoSharedList ==
    [][last'.op = "append" =>
          \A k \in 1..Len(dets) :
              k # last'.holder =>
                  /\ Reported(dets'[k]) = Reported(dets[k])
                  /\ index(dets'[k]).keys = index(dets[k]).keys]_vars

\* the data, the configured and the fitted parameters of a detector
C28_Parameters(d) == [f \in (DOMAIN d) \ {"_detector"} |-> d[f]]

\* C28: reading index, is_error, not_error, n_errors, has_errors, detected or
\* valid, any number of times, changes neither the parameters nor the data of
\* a detector, and index gives the same rows before and after
C28_EvaluationChangesNothing ==
    [][last'.op = "evaluate" =>
          /\ Len(dets') = Len(dets)
          /\ \A k \in 1..Len(dets) :
                /\ C28_Parameters(dets'[k]) = C28_Parameters(dets[k])
                /\ index(dets'[k]) = index(dets[k])
                /\ is_error(dets'[k]) = is_error(dets[k])
                /\ not_error(dets'[k]) = not_error(dets[k])]_vars

\* by_category, evaluated twice on a table with a missing value, flags a row
C28_Witness ==
    /\ last.op = "evaluate" /\ last.what = "index"
    /\ dets[1].name = "by_category" /\ "_detector" \in DOMAIN dets[1]
    /\ index(dets[1]).keys # {}
    /\ \E i \in Pos(dets[1].obj) : RowMissing(dets[1], i)

\* the detector built straight from the first one on the data of the third
C29_Direct == detect_from(dets[3].obj, dets[1])

\* C29: a detector built from a detector that was itself built from a fitted
\* one reports the parameters and flags the rows of the detector built
\* straight from the fitted one on the same data
C29_ChainIsTransparent ==
    Len(dets) = 3 =>
        /\ C29_Direct.err = "none"
        /\ Reported(C29_Direct.d) = Reported(dets[3])
        /\ index(C29_Direct.d) = index(dets[3])

\* C30: after clip or to_na with a bound-style detector, whatever its inclusive
\* and sided policy, the detector flags no row of the cleaned data
C30_CleanedDataNotFlagged ==
    last.op \in {"clip", "to_na"} => index(dets[1]).keys = {}

====
